---- MODULE Spec2Model ----
(***************************************************************************)
(* Model of the nexus_repository_apt_proxy resource                        *)
(* (nexus/resource_repository_apt_proxy.go): its schema, the example of    *)
(* its documentation, the marshaling function                              *)
(* getRepositoryAptProxyFromResourceData and the five handlers Create,     *)
(* Read, Update, Delete and Exists that delegate to the nexus client.      *)
(*                                                                         *)
(* A Go pointer is a sequence of length at most one: <<>> is nil and       *)
(* <<v>> points to v. A Go interface{} value is a record [t, v] of its     *)
(* dynamic type and its value.                                             *)
(***************************************************************************)
EXTENDS Integers, Sequences, FiniteSets, TLC

VARIABLES
    doc,      \* SpecDoc: the configuration text being validated (block path -> attribute names)
    diags,    \* SpecDoc: <<>> before validation, <<unsupported arguments>> after it
    input,    \* SpecBuild: the resource data handed to getRepositoryAptProxyFromResourceData
    output,   \* SpecBuild: <<>> before the call, <<its outcome>> after it
    d,        \* Spec: the schema.ResourceData of the resource: its ID and the attributes set
    server,   \* Spec: the repositories the nexus server holds, by name
    last      \* Spec: the record of the last handler invocation

vars == <<doc, diags, input, output, d, server, last>>

----------------------------------------------------------------------------
(* Go values *)

Nil == <<>>
Ptr(v) == <<v>>
IsNil(p) == p = <<>>
Deref(p) == p[1]

\* dynamic Go types of the values the SDK stores for each schema type
GoType(schemaType) ==
    CASE schemaType = "TypeString" -> "string"
      [] schemaType = "TypeBool" -> "bool"
      [] schemaType = "TypeInt" -> "int"
      [] schemaType = "TypeList" -> "[]interface{}"
      [] schemaType = "TypeSet" -> "*schema.Set"

\* an interface{} value holding v with dynamic type t
Iface(t, v) == [t |-> t, v |-> v]

\* x.(T): ok iff the dynamic type of x is T; a failed single-value assertion panics
AssertOk(x, T) == x.t = T

----------------------------------------------------------------------------
(* The schema of the resource, lines 87-314: attribute -> schema type *)

SchemaStorage ==
    [blob_store_name |-> "TypeString", strict_content_type_validation |-> "TypeBool"]

SchemaCleanup == [policy_names |-> "TypeSet"]

SchemaConnection ==
    [retries |-> "TypeInt", user_agent_suffix |-> "TypeString", timeout |-> "TypeInt",
     enable_circular_redirects |-> "TypeBool", enable_cookies |-> "TypeBool",
     use_trust_store |-> "TypeBool"]

SchemaAuthentication ==
    [type |-> "TypeString", username |-> "TypeString", password |-> "TypeString",
     ntlm_host |-> "TypeString", ntlm_domain |-> "TypeString"]

SchemaHTTPClient ==
    [blocked |-> "TypeBool", auto_block |-> "TypeBool",
     connection |-> "TypeList", authentication |-> "TypeList"]

SchemaNegativeCache == [enabled |-> "TypeBool", ttl |-> "TypeInt"]

SchemaProxy ==
    [content_max_age |-> "TypeInt", metadata_max_age |-> "TypeInt", remote_url |-> "TypeString"]

SchemaApt == [distribution |-> "TypeString", flat |-> "TypeBool"]

SchemaRoot ==
    [name |-> "TypeString", online |-> "TypeBool", storage |-> "TypeList",
     cleanup |-> "TypeList", http_client |-> "TypeList", negative_cache |-> "TypeList",
     proxy |-> "TypeList", routing_rule |-> "TypeString", apt |-> "TypeList"]

\* the blocks of the schema, by path
BlockPaths ==
    {"", "storage", "cleanup", "http_client", "http_client.connection",
     "http_client.authentication", "negative_cache", "proxy", "apt"}

\* the attributes the schema declares in the block at path
SchemaAttrs(path) ==
    CASE path = "" -> DOMAIN SchemaRoot
      [] path = "storage" -> DOMAIN SchemaStorage
      [] path = "cleanup" -> DOMAIN SchemaCleanup
      [] path = "http_client" -> DOMAIN SchemaHTTPClient
      [] path = "http_client.connection" -> DOMAIN SchemaConnection
      [] path = "http_client.authentication" -> DOMAIN SchemaAuthentication
      [] path = "negative_cache" -> DOMAIN SchemaNegativeCache
      [] path = "proxy" -> DOMAIN SchemaProxy
      [] path = "apt" -> DOMAIN SchemaApt

\* the attribute of the parent block that holds the block at path
BlockAttr(path) ==
    CASE path = "http_client.connection" -> "connection"
      [] path = "http_client.authentication" -> "authentication"
      [] OTHER -> path

ParentPath(path) ==
    IF path \in {"http_client.connection", "http_client.authentication"}
    THEN "http_client" ELSE ""

----------------------------------------------------------------------------
(* The documented example, lines 8-63: block path -> the attributes it sets *)

ExampleUsage ==
    [p \in BlockPaths |->
        CASE p = "" -> {"name", "online", "storage", "cleanup", "proxy", "negative_cache",
                        "http_client", "routing_rule", "apt"}
          [] p = "storage" -> {"blob_store_name", "strict_content_type_validation"}
          [] p = "cleanup" -> {"policy_names"}
          [] p = "proxy" -> {"remote_url", "content_max_age", "metadata_max_age"}
          [] p = "negative_cache" -> {"enabled", "time_to_live"}
          [] p = "http_client" -> {"blocked", "auto_block", "connection", "authentication"}
          [] p = "http_client.connection" ->
                {"retries", "user_agent_suffix", "timeout", "enable_circular_redirects",
                 "enable_cookies", "use_trust_store"}
          [] p = "http_client.authentication" ->
                {"type", "username", "password", "ntlm_host", "ntlm_domain"}
          [] p = "apt" -> {"distribution", "flat"}]

\* the blocks a configuration text contains: the root, and every block its parent sets
HasBlock(text, p) ==
    \/ p = ""
    \/ /\ BlockAttr(p) \in text[ParentPath(p)]
       /\ ParentPath(p) = "" \/ BlockAttr(ParentPath(p)) \in text[""]

\* the example with only the optional top-level arguments of keep
ExampleWith(keep) ==
    [p \in BlockPaths |->
        IF p = "" THEN {a \in ExampleUsage[""] : a \in {"name", "online"} \/ a \in keep}
        ELSE ExampleUsage[p]]

OptionalArguments == ExampleUsage[""] \ {"name", "online"}

Documents == {ExampleWith(keep) : keep \in SUBSET OptionalArguments}

\* schema validation of a configuration text: the arguments no schema block declares
UnsupportedArguments(text) ==
    {<<p, a>> \in BlockPaths \X UNION {text[q] : q \in BlockPaths} :
        /\ HasBlock(text, p)
        /\ a \in text[p]
        /\ a \notin SchemaAttrs(p)}

----------------------------------------------------------------------------
(* Resource data: the values d.Get returns, built as the SDK builds them   *)
(* from the schema: every key of a block is present, an unset argument has *)
(* the zero value of its type.                                             *)

MaxListLen == 2   \* longest list of a block the schema leaves without MaxItems

Value(schemaType, v) == Iface(GoType(schemaType), v)
Map(m) == Iface("map[string]interface{}", m)
NilElem == Iface("nil", [nil |-> TRUE])   \* a nil interface{} in a list

SeqsUpTo(S, n) == UNION {[1..k -> S] : k \in 0..n}

Names == {"apt-proxy", "apt-mirror"}

AptElems ==
    {Map([distribution |-> Value(SchemaApt.distribution, "bionic"),
          flat |-> Value(SchemaApt.flat, FALSE)]),
     Map([distribution |-> Value(SchemaApt.distribution, "focal"),
          flat |-> Value(SchemaApt.flat, TRUE)])}

CleanupElems ==
    {Map([policy_names |-> Value(SchemaCleanup.policy_names,
                               <<Iface("string", "string"), Iface("string", "weekly")>>)])}

ConnectionElem(retries, timeout) ==
    Map([retries |-> Value(SchemaConnection.retries, retries),
         user_agent_suffix |-> Value(SchemaConnection.user_agent_suffix, "string"),
         timeout |-> Value(SchemaConnection.timeout, timeout),
         enable_circular_redirects |-> Value(SchemaConnection.enable_circular_redirects, FALSE),
         enable_cookies |-> Value(SchemaConnection.enable_cookies, FALSE),
         use_trust_store |-> Value(SchemaConnection.use_trust_store, FALSE)])

AuthenticationElem ==
    Map([type |-> Value(SchemaAuthentication.type, "username"),
         username |-> Value(SchemaAuthentication.username, "string"),
         password |-> Value(SchemaAuthentication.password, "string"),
         ntlm_host |-> Value(SchemaAuthentication.ntlm_host, "string"),
         ntlm_domain |-> Value(SchemaAuthentication.ntlm_domain, "string")])

HTTPClientElem(blocked, conn, auth) ==
    Map([blocked |-> Value(SchemaHTTPClient.blocked, blocked),
         auto_block |-> Value(SchemaHTTPClient.auto_block, ~blocked),
         connection |-> Value(SchemaHTTPClient.connection, conn),
         authentication |-> Value(SchemaHTTPClient.authentication, auth)])

\* http_client: absent, without nested blocks, with an empty connection block,
\* with the connection of the example, with the authentication of the example, with both
HTTPClientLists ==
    {<<>>,
     <<HTTPClientElem(FALSE, <<>>, <<>>)>>,
     <<HTTPClientElem(TRUE, <<NilElem>>, <<NilElem>>)>>,
     <<HTTPClientElem(FALSE, <<ConnectionElem(0, 60)>>, <<>>)>>,
     <<HTTPClientElem(TRUE, <<>>, <<AuthenticationElem>>)>>,
     <<HTTPClientElem(FALSE, <<ConnectionElem(0, 60)>>, <<AuthenticationElem>>)>>}

NegativeCacheElem(enabled, ttl) ==
    Map([enabled |-> Value(SchemaNegativeCache.enabled, enabled),
         ttl |-> Value(SchemaNegativeCache.ttl, ttl)])

NegativeCacheLists ==
    {<<>>, <<NegativeCacheElem(TRUE, 1440)>>, <<NegativeCacheElem(FALSE, 60)>>}

ProxyElem(contentAge, metadataAge) ==
    Map([content_max_age |-> Value(SchemaProxy.content_max_age, contentAge),
         metadata_max_age |-> Value(SchemaProxy.metadata_max_age, metadataAge),
         remote_url |-> Value(SchemaProxy.remote_url, "https://remote.repository.com")])

ProxyLists == {<<>>, <<ProxyElem(1440, 1440)>>, <<ProxyElem(60, 720)>>}

StorageElem ==
    Map([blob_store_name |-> Value(SchemaStorage.blob_store_name, "default"),
         strict_content_type_validation |->
            Value(SchemaStorage.strict_content_type_validation, TRUE)])

ResourceDataOver(names, onlines, apts, cleanups, https, negs, proxies, storages, rules) ==
    {[name |-> Value(SchemaRoot.name, n),
      online |-> Value(SchemaRoot.online, o),
      apt |-> Value(SchemaRoot.apt, a),
      cleanup |-> Value(SchemaRoot.cleanup, c),
      http_client |-> Value(SchemaRoot.http_client, h),
      negative_cache |-> Value(SchemaRoot.negative_cache, nc),
      proxy |-> Value(SchemaRoot.proxy, p),
      storage |-> Value(SchemaRoot.storage, s),
      routing_rule |-> Value(SchemaRoot.routing_rule, r)] :
        n \in names, o \in onlines, a \in apts, c \in cleanups, h \in https,
        nc \in negs, p \in proxies, s \in storages, r \in rules}

\* resource data of the schema
SchemaConfigs ==
    ResourceDataOver(Names, BOOLEAN, SeqsUpTo(AptElems, MaxListLen),
                     SeqsUpTo(CleanupElems, MaxListLen), HTTPClientLists,
                     NegativeCacheLists, ProxyLists, {<<>>, <<StorageElem>>}, {"", "string"})

\* resource data that also holds format and type, the arguments lines 587-602 declare
WithFormatAndType(data, format, type) ==
    [k \in DOMAIN data \cup {"format", "type"} |->
        IF k = "format" THEN Value("TypeString", format)
        ELSE IF k = "type" THEN Value("TypeString", type)
        ELSE data[k]]

\* the inputs of getRepositoryAptProxyFromResourceData
Configs ==
    SchemaConfigs \cup
    {WithFormatAndType(data, format, type) :
        data \in {c \in SchemaConfigs : c.apt.v = <<>> /\ c.cleanup.v = <<>>},
        format \in {"apt", "maven2"}, type \in {"proxy", "hosted"}}

----------------------------------------------------------------------------
(* getRepositoryAptProxyFromResourceData, lines 380-498 *)

RepositoryTypeHosted == "hosted"

\* d.GetOk(key): the value is set and is not the zero value of its type
GetOk(data, key) ==
    /\ key \in DOMAIN data
    /\ data[key].v # (IF data[key].t = "[]interface{}" THEN <<>>
                      ELSE IF data[key].t = "bool" THEN FALSE ELSE "")

\* every x.(T) of a list of <<x, T>> succeeds
AllOk(assertions) == \A i \in DOMAIN assertions : AssertOk(assertions[i][1], assertions[i][2])

\* the []string of a []interface{} of strings
interfaceSliceToStringSlice(list) == [i \in DOMAIN list |-> list[i].v]

\* the zero value of nexus.Repository
ZeroRepository ==
    [Format |-> "", Name |-> "", Online |-> FALSE, Type |-> "",
     RepositoryApt |-> Nil, RepositoryCleanup |-> Nil, RepositoryGroup |-> Nil,
     RepositoryHTTPClient |-> Nil, RepositoryNegativeCache |-> Nil,
     RepositoryProxy |-> Nil, RepositoryStorage |-> Nil, RoutingRule |-> Nil]

\* the function's progress: the local repo, and the panic that ended it ("" for none)
Panic(st, what) == [st EXCEPT !.panic = what]
Running(st) == st.panic = ""

\* the repository literal with Format and Type read from the resource data when set
BuildBaseFromData(data) ==
    IF AllOk(<< <<data.name, "string">>, <<data.online, "bool">> >>)
    THEN [panic |-> "",
          repo |-> [ZeroRepository EXCEPT
                       !.Format = IF GetOk(data, "format") THEN data.format.v ELSE "apt",
                       !.Name = data.name.v,
                       !.Online = data.online.v,
                       !.Type = IF GetOk(data, "type") THEN data.type.v ELSE "proxy"]]
    ELSE [panic |-> "interface conversion", repo |-> ZeroRepository]

\* lines 381-386
BuildBase(data) ==
    IF AllOk(<< <<data.name, "string">>, <<data.online, "bool">> >>)
    THEN [panic |-> "",
          repo |-> [ZeroRepository EXCEPT !.Format = "apt", !.Name = data.name.v,
                                          !.Online = data.online.v, !.Type = "proxy"]]
    ELSE [panic |-> "interface conversion", repo |-> ZeroRepository]

\* lines 388-396
BuildApt(data, st) ==
    IF ~Running(st) \/ ~GetOk(data, "apt") THEN st
    ELSE LET aptConfig == data.apt.v[1].v IN
         IF AllOk(<< <<data.apt, "[]interface{}">>,
                     <<data.apt.v[1], "map[string]interface{}">>,
                     <<aptConfig.distribution, "string">>, <<aptConfig.flat, "bool">> >>)
         THEN [st EXCEPT !.repo.RepositoryApt =
                  Ptr([Distribution |-> aptConfig.distribution.v, Flat |-> aptConfig.flat.v])]
         ELSE Panic(st, "interface conversion")

\* lines 398-404
BuildCleanup(data, st) ==
    IF ~Running(st) \/ ~GetOk(data, "cleanup") THEN st
    ELSE LET cleanupConfig == data.cleanup.v[1].v IN
         IF AllOk(<< <<data.cleanup, "[]interface{}">>,
                     <<data.cleanup.v[1], "map[string]interface{}">>,
                     <<cleanupConfig.policy_names, "*schema.Set">> >>)
         THEN [st EXCEPT !.repo.RepositoryCleanup =
                  Ptr([PolicyNames |->
                          interfaceSliceToStringSlice(cleanupConfig.policy_names.v)])]
         ELSE Panic(st, "interface conversion")

\* lines 406-421: the schema of this resource has no group block
BuildGroup(data, st) ==
    IF ~Running(st) \/ ~GetOk(data, "group") THEN st
    ELSE LET groupList == data.group.v IN
         [st EXCEPT !.repo.RepositoryGroup =
             Ptr([MemberNames |->
                     IF Len(groupList) = 1 /\ groupList[1] # NilElem
                     THEN groupList[1].v.member_names.v ELSE <<>>])]

\* lines 432-445
BuildAuthentication(httpClientConfig, st) ==
    IF ~Running(st) \/ "authentication" \notin DOMAIN httpClientConfig THEN st
    ELSE LET v == httpClientConfig.authentication IN
         IF ~AssertOk(v, "[]interface{}") THEN Panic(st, "interface conversion")
         ELSE IF ~(Len(v.v) = 1 /\ v.v[1] # NilElem) THEN st
         ELSE LET authConfig == v.v[1].v IN
              IF AllOk(<< <<v.v[1], "map[string]interface{}">>,
                          <<authConfig.ntlm_domain, "string">>,
                          <<authConfig.ntlm_host, "string">>, <<authConfig.type, "string">>,
                          <<authConfig.username, "string">>,
                          <<authConfig.password, "string">> >>)
              THEN [st EXCEPT !.repo.RepositoryHTTPClient[1].Authentication =
                       Ptr([NTLMDomain |-> authConfig.ntlm_domain.v,
                            NTLMHost |-> authConfig.ntlm_host.v,
                            Type |-> authConfig.type.v,
                            Username |-> authConfig.username.v,
                            Password |-> authConfig.password.v])]
              ELSE Panic(st, "interface conversion")

\* lines 447-459: retries and timeout are asserted to be *int
BuildConnection(httpClientConfig, st) ==
    IF ~Running(st) \/ "connection" \notin DOMAIN httpClientConfig THEN st
    ELSE LET v == httpClientConfig.connection IN
         IF ~AssertOk(v, "[]interface{}") THEN Panic(st, "interface conversion")
         ELSE IF ~(Len(v.v) = 1 /\ v.v[1] # NilElem) THEN st
         ELSE LET connConfig == v.v[1].v IN
              IF AllOk(<< <<v.v[1], "map[string]interface{}">>,
                          <<connConfig.retries, "*int">>, <<connConfig.timeout, "*int">> >>)
              THEN [st EXCEPT !.repo.RepositoryHTTPClient[1].Connection =
                       Ptr([Retries |-> connConfig.retries.v,
                            Timeout |-> connConfig.timeout.v])]
              ELSE Panic(st, "interface conversion: interface {} is int, not *int")

\* lines 423-460
BuildHTTPClient(data, st) ==
    IF ~Running(st) \/ ~GetOk(data, "http_client") THEN st
    ELSE LET httpClientConfig == data.http_client.v[1].v IN
         IF AllOk(<< <<data.http_client, "[]interface{}">>,
                     <<data.http_client.v[1], "map[string]interface{}">>,
                     <<httpClientConfig.auto_block, "bool">>,
                     <<httpClientConfig.blocked, "bool">> >>)
         THEN BuildConnection(httpClientConfig,
                BuildAuthentication(httpClientConfig,
                    [st EXCEPT !.repo.RepositoryHTTPClient =
                        Ptr([AutoBlock |-> httpClientConfig.auto_block.v,
                             Blocked |-> httpClientConfig.blocked.v,
                             Authentication |-> Nil, Connection |-> Nil])]))
         ELSE Panic(st, "interface conversion")

\* lines 462-470
BuildNegativeCache(data, st) ==
    IF ~Running(st) \/ ~GetOk(data, "negative_cache") THEN st
    ELSE LET negativeCacheConfig == data.negative_cache.v[1].v IN
         IF AllOk(<< <<data.negative_cache, "[]interface{}">>,
                     <<data.negative_cache.v[1], "map[string]interface{}">>,
                     <<negativeCacheConfig.enabled, "bool">>,
                     <<negativeCacheConfig.ttl, "int">> >>)
         THEN [st EXCEPT !.repo.RepositoryNegativeCache =
                  Ptr([Enabled |-> negativeCacheConfig.enabled.v,
                       TTL |-> negativeCacheConfig.ttl.v])]
         ELSE Panic(st, "interface conversion")

\* lines 472-480
BuildProxy(data, st) ==
    IF ~Running(st) \/ ~GetOk(data, "proxy") THEN st
    ELSE LET proxyConfig == data.proxy.v[1].v IN
         IF AllOk(<< <<data.proxy, "[]interface{}">>,
                     <<data.proxy.v[1], "map[string]interface{}">>,
                     <<proxyConfig.content_max_age, "int">>,
                     <<proxyConfig.metadata_max_age, "int">>,
                     <<proxyConfig.remote_url, "string">> >>)
         THEN [st EXCEPT !.repo.RepositoryProxy =
                  Ptr([ContentMaxAge |-> proxyConfig.content_max_age.v,
                       MetadataMaxAge |-> proxyConfig.metadata_max_age.v,
                       RemoteURL |-> proxyConfig.remote_url.v])]
         ELSE Panic(st, "interface conversion")

\* the storage block with the hosted test made on the type the resource data holds
BuildStorageByConfiguredType(data, st) ==
    IF ~Running(st) \/ ~GetOk(data, "storage") THEN st
    ELSE LET storageConfig == data.storage.v[1].v
             storage ==
                [BlobStoreName |-> storageConfig.blob_store_name.v,
                 StrictContentTypeValidation |->
                    storageConfig.strict_content_type_validation.v,
                 WritePolicy |-> Nil]
         IN IF ~(GetOk(data, "type") /\ data.type.v = RepositoryTypeHosted)
            THEN [st EXCEPT !.repo.RepositoryStorage = Ptr(storage)]
            ELSE IF "write_policy" \in DOMAIN storageConfig
                    /\ AssertOk(storageConfig.write_policy, "string")
            THEN [st EXCEPT !.repo.RepositoryStorage =
                     Ptr([storage EXCEPT !.WritePolicy = Ptr(storageConfig.write_policy.v)])]
            ELSE Panic([st EXCEPT !.repo.RepositoryStorage = Ptr(storage)],
                       "interface conversion: interface {} is nil, not string")

\* lines 482-495: write_policy is read for hosted repositories only
BuildStorage(data, st) ==
    IF ~Running(st) \/ ~GetOk(data, "storage") THEN st
    ELSE LET storageConfig == data.storage.v[1].v IN
         IF AllOk(<< <<data.storage, "[]interface{}">>,
                     <<data.storage.v[1], "map[string]interface{}">>,
                     <<storageConfig.blob_store_name, "string">>,
                     <<storageConfig.strict_content_type_validation, "bool">> >>)
         THEN LET storage ==
                    [BlobStoreName |-> storageConfig.blob_store_name.v,
                     StrictContentTypeValidation |->
                        storageConfig.strict_content_type_validation.v,
                     WritePolicy |-> Nil]
              IN IF st.repo.Type # RepositoryTypeHosted
                 THEN [st EXCEPT !.repo.RepositoryStorage = Ptr(storage)]
                 ELSE IF "write_policy" \in DOMAIN storageConfig
                         /\ AssertOk(storageConfig.write_policy, "string")
                 THEN [st EXCEPT !.repo.RepositoryStorage =
                          Ptr([storage EXCEPT !.WritePolicy =
                                  Ptr(storageConfig.write_policy.v)])]
                 ELSE Panic([st EXCEPT !.repo.RepositoryStorage = Ptr(storage)],
                            "interface conversion: interface {} is nil, not string")
         ELSE Panic(st, "interface conversion")

\* the outcome of the call: the panic that ended it ("" when it returned) and the repository
getRepositoryAptProxyFromResourceData(data) ==
    BuildStorage(data,
      BuildProxy(data,
        BuildNegativeCache(data,
          BuildHTTPClient(data,
            BuildGroup(data,
              BuildCleanup(data,
                BuildApt(data, BuildBase(data))))))))

----------------------------------------------------------------------------
(* Specifications of the two pure functions *)

Idle == <<>>

\* validation of a configuration text against the schema
Validate ==
    /\ diags = <<>>
    /\ diags' = <<UnsupportedArguments(doc)>>
    /\ UNCHANGED <<doc, input, output, d, server, last>>

InitDoc ==
    /\ doc \in Documents
    /\ diags = <<>>
    /\ input = Idle /\ output = Idle /\ d = Idle /\ server = Idle /\ last = Idle

NextDoc == Validate

SpecDoc == InitDoc /\ [][NextDoc]_vars

\* one call of getRepositoryAptProxyFromResourceData
Build ==
    /\ output = <<>>
    /\ output' = <<getRepositoryAptProxyFromResourceData(input)>>
    /\ UNCHANGED <<doc, diags, input, d, server, last>>

InitBuild ==
    /\ input \in Configs
    /\ output = <<>>
    /\ doc = Idle /\ diags = Idle /\ d = Idle /\ server = Idle /\ last = Idle

NextBuild == Build

SpecBuild == InitBuild /\ [][NextBuild]_vars

----------------------------------------------------------------------------
(* The nexus client and the server behind it: a server that stores the     *)
(* repository it is sent and returns it on read, and calls that may fail.  *)

NoError == ""
Errors == {"connection refused", "500 Internal Server Error"}
Outcomes == Errors \cup {NoError}

ServerCreate(srv, repo) == [srv EXCEPT ![repo.Name] = Ptr(repo)]
ServerUpdate(srv, id, repo) == [srv EXCEPT ![id] = Ptr(repo)]
ServerDelete(srv, id) == [srv EXCEPT ![id] = Nil]
ServerRead(srv, id) == srv[id]

----------------------------------------------------------------------------
(* The handlers. A run is what one invocation did: the resource data and   *)
(* the server it leaves, the error it returned, the panic that ended it,   *)
(* and the trace of its client calls and of its writes to the resource     *)
(* data, in the order it made them.                                        *)

\* a call of a client method: its target, the repository sent, the error and the
\* repository returned
Call(method, target, repo, err, result) ==
    [kind |-> "call", method |-> method, target |-> target, repo |-> repo, err |-> err,
     result |-> result]

\* a write to the resource data: SetId(target) or Set of the attributes of repo
Write(method, target, repo) ==
    [kind |-> "write", method |-> method, target |-> target, repo |-> repo, err |-> NoError,
     result |-> Nil]

Calls(trace) == SelectSeq(trace, LAMBDA e : e.kind = "call")
Writes(trace) == SelectSeq(trace, LAMBDA e : e.kind = "write")

NewResourceData == [id |-> "", attrs |-> Nil]

Run(rd, srv, err, trace) ==
    [d |-> rd, server |-> srv, err |-> err, panic |-> "", trace |-> trace, exists |-> FALSE]

\* a run followed by the run of the call the handler returns
Then(trace, run) == [run EXCEPT !.trace = trace \o run.trace]

\* setRepositoryToResourceData(repo, d): the ID and the attributes are set from repo
setRepositoryToResourceData(repo, rd, fails) ==
    IF fails
    THEN [d |-> [rd EXCEPT !.id = repo.Name], err |-> "invalid attribute value",
          trace |-> <<Write("SetId", repo.Name, Nil)>>]
    ELSE [d |-> [id |-> repo.Name, attrs |-> Ptr(repo)], err |-> NoError,
          trace |-> <<Write("SetId", repo.Name, Nil), Write("Set", "", Ptr(repo))>>]

\* Read with a failed RepositoryRead taken for a missing repository
ReadErrorAsMissing(rd, srv, readErr, setFails) ==
    LET repo == IF readErr = NoError THEN ServerRead(srv, rd.id) ELSE Nil
        call == Call("RepositoryRead", rd.id, Nil, readErr, repo)
    IN IF IsNil(repo)
       THEN Run([rd EXCEPT !.id = ""], srv, NoError, <<call, Write("SetId", "", Nil)>>)
       ELSE LET set == setRepositoryToResourceData(Deref(repo), rd, setFails)
            IN Run(set.d, srv, set.err, <<call>> \o set.trace)

\* Read that returns nil for a missing repository without clearing the ID
ReadKeepsMissing(rd, srv, readErr, setFails) ==
    LET repo == IF readErr = NoError THEN ServerRead(srv, rd.id) ELSE Nil
        call == Call("RepositoryRead", rd.id, Nil, readErr, repo)
    IN IF readErr # NoError THEN Run(rd, srv, readErr, <<call>>)
       ELSE IF IsNil(repo) THEN Run(rd, srv, NoError, <<call>>)
       ELSE LET set == setRepositoryToResourceData(Deref(repo), rd, setFails)
            IN Run(set.d, srv, set.err, <<call>> \o set.trace)

\* lines 334-348
resourceRepositoryAptProxyRead(rd, srv, readErr, setFails) ==
    LET repo == IF readErr = NoError THEN ServerRead(srv, rd.id) ELSE Nil
        call == Call("RepositoryRead", rd.id, Nil, readErr, repo)
    IN IF readErr # NoError THEN Run(rd, srv, readErr, <<call>>)
       ELSE IF IsNil(repo)
       THEN Run([rd EXCEPT !.id = ""], srv, NoError, <<call, Write("SetId", "", Nil)>>)
       ELSE LET set == setRepositoryToResourceData(Deref(repo), rd, setFails)
            IN Run(set.d, srv, set.err, <<call>> \o set.trace)

\* resourceRepositoryRead, the read of the generic repository resource
resourceRepositoryRead(rd, srv, readErr, setFails) ==
    LET repo == IF readErr = NoError THEN ServerRead(srv, rd.id) ELSE Nil
        call == Call("RepositoryRead", rd.id, Nil, readErr, repo)
    IN IF readErr # NoError THEN Run(rd, srv, readErr, <<call>>)
       ELSE IF IsNil(repo)
       THEN Run([rd EXCEPT !.id = ""], srv, NoError, <<call, Write("SetId", "", Nil)>>)
       ELSE LET set == setRepositoryToResourceData(Deref(repo), rd, setFails)
            IN Run(set.d, srv, set.err, <<call>> \o set.trace)

\* Create that returns after setRepositoryToResourceData, without the read
CreateWithoutRead(data, rd, srv, createErr, readErr, setFails) ==
    LET built == getRepositoryAptProxyFromResourceData(data)
        repo == built.repo
        call == Call("RepositoryCreate", "", Ptr(repo), createErr, Nil)
    IN IF built.panic # "" THEN [Run(rd, srv, NoError, <<>>) EXCEPT !.panic = built.panic]
       ELSE IF createErr # NoError THEN Run(rd, srv, createErr, <<call>>)
       ELSE LET set == setRepositoryToResourceData(repo, rd, setFails = 1)
            IN Run(set.d, ServerCreate(srv, repo), set.err, <<call>> \o set.trace)

\* Create that sends the repository without its apt block
CreateDropsApt(data, rd, srv, createErr, readErr, setFails) ==
    LET built == getRepositoryAptProxyFromResourceData(data)
        repo == [built.repo EXCEPT !.RepositoryApt = Nil]
        call == Call("RepositoryCreate", "", Ptr(repo), createErr, Nil)
    IN IF built.panic # "" THEN [Run(rd, srv, NoError, <<>>) EXCEPT !.panic = built.panic]
       ELSE IF createErr # NoError THEN Run(rd, srv, createErr, <<call>>)
       ELSE LET stored == ServerCreate(srv, repo)
                set == setRepositoryToResourceData(repo, rd, setFails = 1)
            IN IF set.err # NoError THEN Run(set.d, stored, set.err, <<call>> \o set.trace)
               ELSE Then(<<call>> \o set.trace,
                         resourceRepositoryAptProxyRead(set.d, stored, readErr, setFails = 2))

\* lines 318-332; setFails: which call of setRepositoryToResourceData fails (0: none)
resourceRepositoryAptProxyCreate(data, rd, srv, createErr, readErr, setFails) ==
    LET built == getRepositoryAptProxyFromResourceData(data)
        repo == built.repo
        call == Call("RepositoryCreate", "", Ptr(repo), createErr, Nil)
    IN IF built.panic # "" THEN [Run(rd, srv, NoError, <<>>) EXCEPT !.panic = built.panic]
       ELSE IF createErr # NoError THEN Run(rd, srv, createErr, <<call>>)
       ELSE LET stored == ServerCreate(srv, repo)
                set == setRepositoryToResourceData(repo, rd, setFails = 1)
            IN IF set.err # NoError THEN Run(set.d, stored, set.err, <<call>> \o set.trace)
               ELSE Then(<<call>> \o set.trace,
                         resourceRepositoryAptProxyRead(set.d, stored, readErr, setFails = 2))

\* Update that refreshes the resource data from the server although RepositoryUpdate failed
UpdateReadsAfterFailure(data, rd, srv, updateErr, readErr, setFails) ==
    LET repoName == rd.id
        built == getRepositoryAptProxyFromResourceData(data)
        repo == built.repo
        call == Call("RepositoryUpdate", repoName, Ptr(repo), updateErr, Nil)
    IN IF built.panic # "" THEN [Run(rd, srv, NoError, <<>>) EXCEPT !.panic = built.panic]
       ELSE IF updateErr # NoError
       THEN [Then(<<call>>, resourceRepositoryRead(rd, srv, NoError, FALSE))
                EXCEPT !.err = updateErr]
       ELSE LET stored == ServerUpdate(srv, repoName, repo)
                set == setRepositoryToResourceData(repo, rd, setFails = 1)
            IN IF set.err # NoError THEN Run(set.d, stored, set.err, <<call>> \o set.trace)
               ELSE Then(<<call>> \o set.trace,
                         resourceRepositoryRead(set.d, stored, readErr, setFails = 2))

\* lines 350-365
resourceRepositoryAptProxyUpdate(data, rd, srv, updateErr, readErr, setFails) ==
    LET repoName == rd.id
        built == getRepositoryAptProxyFromResourceData(data)
        repo == built.repo
        call == Call("RepositoryUpdate", repoName, Ptr(repo), updateErr, Nil)
    IN IF built.panic # "" THEN [Run(rd, srv, NoError, <<>>) EXCEPT !.panic = built.panic]
       ELSE IF updateErr # NoError THEN Run(rd, srv, updateErr, <<call>>)
       ELSE LET stored == ServerUpdate(srv, repoName, repo)
                set == setRepositoryToResourceData(repo, rd, setFails = 1)
            IN IF set.err # NoError THEN Run(set.d, stored, set.err, <<call>> \o set.trace)
               ELSE Then(<<call>> \o set.trace,
                         resourceRepositoryRead(set.d, stored, readErr, setFails = 2))

\* lines 367-371
resourceRepositoryAptProxyDelete(rd, srv, deleteErr) ==
    Run(rd, IF deleteErr = NoError THEN ServerDelete(srv, rd.id) ELSE srv, deleteErr,
        <<Call("RepositoryDelete", rd.id, Nil, deleteErr, Nil)>>)

\* lines 373-378
resourceRepositoryAptProxyExists(rd, srv, readErr) ==
    LET repo == IF readErr = NoError THEN ServerRead(srv, rd.id) ELSE Nil
    IN [Run(rd, srv, readErr, <<Call("RepositoryRead", rd.id, Nil, readErr, repo)>>)
           EXCEPT !.exists = ~IsNil(repo)]

----------------------------------------------------------------------------
(* The resource under Terraform: one handler invocation per step *)

\* the configurations the handlers are invoked with
CrudConfigs ==
    ResourceDataOver(Names, {TRUE}, {<<CHOOSE a \in AptElems : a.v.flat.v>>}, {<<>>},
                     {<<>>, <<HTTPClientElem(TRUE, <<>>, <<AuthenticationElem>>)>>,
                      <<HTTPClientElem(FALSE, <<ConnectionElem(0, 60)>>, <<AuthenticationElem>>)>>},
                     {<<NegativeCacheElem(TRUE, 1440)>>}, {<<ProxyElem(1440, 1440)>>},
                     {<<StorageElem>>}, {"", "string"})

\* the record of an invocation: the handler, its configuration, the resource data it
\* started from, and its run
Invocation(op, data, rd, run) ==
    [op |-> op, data |-> data, d0 |-> rd, err |-> run.err,
     panic |-> run.panic, trace |-> run.trace, exists |-> run.exists]

Finish(op, data, rd, run) ==
    /\ d' = run.d
    /\ server' = run.server
    /\ last' = Invocation(op, data, rd, run)
    /\ UNCHANGED <<doc, diags, input, output>>

\* the outcomes of the calls of one invocation: the error of the mutating call, the
\* error of RepositoryRead, and which call of setRepositoryToResourceData fails (0: none);
\* a call that follows a failure is not made and has no outcome of its own
FaultPlans ==
    {f \in [mutate : Outcomes, read : Outcomes, set : 0..2] :
        Cardinality({k \in {"mutate", "read"} : f[k] # NoError})
            + (IF f.set = 0 THEN 0 ELSE 1) <= 1}

\* terraform apply of a new resource: Create runs on resource data without an ID
Create ==
    \E data \in CrudConfigs, f \in FaultPlans :
        /\ d.id = ""
        /\ Finish("Create", Ptr(data), NewResourceData,
                  resourceRepositoryAptProxyCreate(data, NewResourceData, server,
                                                   f.mutate, f.read, f.set))

Read ==
    \E readErr \in Outcomes, setFails \in BOOLEAN :
        /\ d.id # ""
        /\ Finish("Read", Nil, d, resourceRepositoryAptProxyRead(d, server, readErr, setFails))

Update ==
    \E data \in CrudConfigs, f \in FaultPlans :
        /\ d.id # ""
        /\ Finish("Update", Ptr(data), d,
                  resourceRepositoryAptProxyUpdate(data, d, server, f.mutate, f.read, f.set))

\* after a Delete without error the SDK drops the resource from the state
Delete ==
    \E deleteErr \in Outcomes :
        /\ d.id # ""
        /\ LET run == resourceRepositoryAptProxyDelete(d, server, deleteErr)
           IN Finish("Delete", Nil, d,
                     IF run.err = NoError THEN [run EXCEPT !.d = NewResourceData] ELSE run)

Exists ==
    \E readErr \in Outcomes :
        /\ d.id # ""
        /\ Finish("Exists", Nil, d, resourceRepositoryAptProxyExists(d, server, readErr))

\* the repository is removed on the server, outside Terraform
ServerLoses ==
    \E n \in Names :
        /\ ~IsNil(server[n])
        /\ server' = ServerDelete(server, n)
        /\ UNCHANGED <<doc, diags, input, output, d, last>>

Init ==
    /\ d = NewResourceData
    /\ server = [n \in Names |-> Nil]
    /\ last = Invocation("", Nil, NewResourceData,
                         Run(NewResourceData, server, NoError, <<>>))
    /\ doc = Idle /\ diags = Idle /\ input = Idle /\ output = Idle

Next == Create \/ Read \/ Update \/ Delete \/ Exists \/ ServerLoses

Spec == Init /\ [][Next]_vars

----------------------------------------------------------------------------
(* Properties of the handlers *)

Handlers == {"Create", "Read", "Update", "Delete", "Exists"}
Mutating == [Create |-> "RepositoryCreate", Update |-> "RepositoryUpdate"]

LastCalls == Calls(last.trace)
LastWrites == Writes(last.trace)

\* C1: when a client call of a handler returns an error, the handler returns that
\* same error, has not made that call before (no retry), and the failed call is the
\* last thing it did: no client call and no write to the resource data follows it.
C1_ErrorPassThrough ==
    \A i \in DOMAIN last.trace :
        LET e == last.trace[i] IN
        (e.kind = "call" /\ e.err # NoError) =>
            /\ last.err = e.err
            /\ last.panic = ""
            /\ i = Len(last.trace)
            /\ \A j \in 1..(i - 1) :
                   ~(last.trace[j].kind = "call" /\ last.trace[j].method = e.method)
            /\ i = 1 => d = last.d0
            /\ last.op = "Exists" => ~last.exists

\* a Create whose RepositoryCreate succeeded and whose RepositoryRead failed
C1_Witness ==
    /\ last.op = "Create"
    /\ Len(last.trace) = 4
    /\ last.trace[4].method = "RepositoryRead"
    /\ last.trace[4].err \in Errors
    /\ last.err = last.trace[4].err

\* C2 as stated: every invocation of a handler issues exactly one request to the
\* client library, whatever the outcome.
C2_ExactlyOneRequest ==
    last.op \in Handlers => Len(LastCalls) = 1

\* C2 amended: Read, Delete and Exists issue exactly one request. Create and Update
\* issue none when building the repository panics; otherwise they issue the mutating
\* request first and alone when it fails, and a RepositoryRead after it, two requests
\* in all, when they return without error; they never issue more than two.
C2_RequestsPerInvocation ==
    /\ last.op \in {"Read", "Delete", "Exists"} => Len(LastCalls) = 1
    /\ last.op \in {"Create", "Update"} =>
          IF last.panic # "" THEN LastCalls = <<>>
          ELSE /\ Len(LastCalls) \in {1, 2}
               /\ LastCalls[1].method = Mutating[last.op]
               /\ LastCalls[1].err # NoError => Len(LastCalls) = 1
               /\ last.err = NoError => Len(LastCalls) = 2
               /\ Len(LastCalls) = 2 =>
                     LastCalls[1].err = NoError /\ LastCalls[2].method = "RepositoryRead"

\* an Update that returned without error after two requests
C2_Witness ==
    /\ last.op = "Update"
    /\ last.err = NoError /\ last.panic = ""
    /\ Len(LastCalls) = 2

LastSucceeded == last.err = NoError /\ last.panic = ""

\* C3: against the server that stores what it is sent: after a successful Create the
\* RepositoryRead for the configured name has returned the repository that
\* getRepositoryAptProxyFromResourceData builds from the configuration, and while the
\* server holds it a following Read leaves the resource present, its ID the name.
C3_RoundTrip ==
    (last.op = "Create" /\ LastSucceeded) =>
        LET data == Deref(last.data)
            built == getRepositoryAptProxyFromResourceData(data).repo
            read == LastCalls[Len(LastCalls)]
        IN /\ read.method = "RepositoryRead"
           /\ read.target = data.name.v
           /\ read.result = Ptr(built)
           /\ d = [id |-> data.name.v, attrs |-> Ptr(built)]
           /\ ServerRead(server, data.name.v) = Ptr(built) =>
                 LET next == resourceRepositoryAptProxyRead(d, server, NoError, FALSE)
                 IN next.err = NoError /\ next.d = d /\ next.d.id # ""

\* a successful Create of a configuration with http_client and routing_rule, whose
\* repository the server still holds
C3_Witness ==
    /\ last.op = "Create" /\ LastSucceeded
    /\ Deref(last.data).http_client.v # <<>>
    /\ Deref(last.data).routing_rule.v = "string"
    /\ ~IsNil(ServerRead(server, Deref(last.data).name.v))
    /\ ~IsNil(Deref(ServerRead(server, Deref(last.data).name.v)).RepositoryHTTPClient)

\* C9: a Read whose RepositoryRead returns no repository and no error sets the ID to
\* the empty string, returns no error and writes nothing else; a Read whose
\* RepositoryRead returns a repository does not clear the ID.
C9_ReadOfMissing ==
    last.op = "Read" =>
        LET read == last.trace[1] IN
        /\ read.kind = "call" /\ read.method = "RepositoryRead" /\ read.target = last.d0.id
        /\ (read.err = NoError /\ IsNil(read.result)) =>
              /\ last.err = NoError
              /\ LastWrites = <<Write("SetId", "", Nil)>>
              /\ d = [last.d0 EXCEPT !.id = ""]
        /\ ~IsNil(read.result) =>
              /\ d.id # ""
              /\ \A i \in DOMAIN LastWrites :
                     LastWrites[i].method = "SetId" => LastWrites[i].target # ""

\* a Read of a resource with attributes in state that the server no longer has
C9_Witness ==
    /\ last.op = "Read"
    /\ last.trace[1].err = NoError /\ IsNil(last.trace[1].result)
    /\ last.d0.id # "" /\ ~IsNil(last.d0.attrs)
    /\ d.id = "" /\ d.attrs = last.d0.attrs

\* C10: Create and Update issue the mutating call first, with the repository built
\* from the configuration; if it fails nothing follows, no RepositoryRead is issued;
\* if it succeeds the resource data is written from the built repository, and only
\* then is RepositoryRead issued, once, for the ID just written; on success the
\* resource data is what that read answered: its repository, or no ID when it
\* answered none.
C10_MutateWriteRead ==
    (last.op \in {"Create", "Update"} /\ last.panic = "") =>
        LET t == last.trace
            built == getRepositoryAptProxyFromResourceData(Deref(last.data)).repo
        IN /\ Len(t) >= 1
           /\ t[1].kind = "call" /\ t[1].method = Mutating[last.op]
           /\ t[1].repo = Ptr(built)
           /\ t[1].err # NoError => Len(t) = 1 /\ d = last.d0
           /\ t[1].err = NoError =>
                 /\ Len(t) >= 2 /\ t[2] = Write("SetId", built.Name, Nil)
                 /\ Len(t) >= 3 => t[3] = Write("Set", "", Ptr(built))
                 /\ Len(t) >= 4 =>
                       /\ t[4].kind = "call" /\ t[4].method = "RepositoryRead"
                       /\ t[4].target = built.Name
           /\ \A i \in DOMAIN t :
                 (t[i].kind = "call" /\ t[i].method = "RepositoryRead") => i = 4
           /\ LastSucceeded =>
                 /\ Len(t) >= 4 /\ t[4].err = NoError
                 /\ IF IsNil(t[4].result) THEN d.id = ""
                    ELSE d = [id |-> Deref(t[4].result).Name, attrs |-> t[4].result]

\* a successful Update that changed what the server holds under the ID
C10_Witness ==
    /\ last.op = "Update" /\ LastSucceeded
    /\ Len(last.trace) = 6
    /\ d.id = last.d0.id
    /\ d.attrs # last.d0.attrs
    /\ last.trace[4].result = d.attrs


\* an invocation of Create or Update whose mutating call stored a repository, and the
\* name the server stored it under: the name sent by Create, the target of Update
Stored(inv) ==
    /\ inv.op \in {"Create", "Update"}
    /\ inv.panic = ""
    /\ Len(inv.trace) >= 1
    /\ inv.trace[1].err = NoError

StoredUnder(inv) ==
    IF inv.op = "Create" THEN Deref(inv.trace[1].repo).Name ELSE inv.trace[1].target

\* C12, the call: RepositoryUpdate is called with the ID held in state before the
\* update as its target and with a repository whose Name is the configured name.
C12_UpdateTargetsID ==
    (last.op = "Update" /\ last.panic = "") =>
        /\ last.trace[1].kind = "call" /\ last.trace[1].method = "RepositoryUpdate"
        /\ last.trace[1].target = last.d0.id
        /\ Deref(last.trace[1].repo).Name = Deref(last.data).name.v

\* C12, the consequence: in a sequence of Create and Update the target of an Update
\* is the name under which the invocation before it stored the repository.
C12_TargetIsWhereStored ==
    [][(Stored(last) /\ last'.op = "Update" /\ last'.panic = "") =>
          last'.trace[1].target = StoredUnder(last)]_vars

\* an Update that sent a repository under a new name to the ID of the old one
C12_Witness ==
    /\ last.op = "Update" /\ last.panic = ""
    /\ last.trace[1].err = NoError
    /\ last.trace[1].target = last.d0.id
    /\ Deref(last.trace[1].repo).Name # last.d0.id

----------------------------------------------------------------------------
(* Properties of the schema and of getRepositoryAptProxyFromResourceData *)

\* C4: the documented example is valid against the schema: every argument it sets, at
\* every nesting level, is declared in the schema of the block it appears in.
C4_ExampleIsValid ==
    (doc = ExampleUsage /\ diags # <<>>) => diags[1] = {}

----------------------------------------------------------------------------
(* Properties of the requests *)

\* C5: when the configuration sets routing_rule, the repository that Create and Update
\* send to the client carries that routing rule.
C5_RoutingRuleSent ==
    \A i \in DOMAIN LastCalls :
        (/\ LastCalls[i].method \in {"RepositoryCreate", "RepositoryUpdate"}
         /\ Deref(last.data).routing_rule.v # "") =>
            Deref(LastCalls[i].repo).RoutingRule = Ptr(Deref(last.data).routing_rule.v)

----------------------------------------------------------------------------
(* Properties of getRepositoryAptProxyFromResourceData *)

Built == Deref(output)

\* the connection block of the input: a list of one map with int retries and timeout
HasIntConnection(data) ==
    /\ GetOk(data, "http_client")
    /\ LET conn == data.http_client.v[1].v.connection.v
       IN /\ Len(conn) = 1
          /\ conn[1] # NilElem
          /\ conn[1].v.retries.t = GoType(SchemaConnection.retries)
          /\ conn[1].v.timeout.t = GoType(SchemaConnection.timeout)

\* C6: with a connection block of integer retries and timeout in http_client, the
\* function completes without a failed type assertion and the Connection of the
\* RepositoryHTTPClient it returns holds the configured retries and timeout.
C6_ConnectionBuilt ==
    (output # <<>> /\ HasIntConnection(input)) =>
        /\ Built.panic = ""
        /\ LET conn == input.http_client.v[1].v.connection.v[1].v
           IN Deref(Built.repo.RepositoryHTTPClient).Connection =
                  Ptr([Retries |-> Ptr(conn.retries.v), Timeout |-> Ptr(conn.timeout.v)])

\* C7: for every configuration the repository the function builds has Format "apt"
\* and Type "proxy", and the configured name and online as its Name and Online,
\* whether the function returns it or panics after building it, and whatever format
\* and type the resource data holds.
C7_FixedFormatAndType ==
    output # <<>> =>
        /\ Built.repo.Format = "apt"
        /\ Built.repo.Type = "proxy"
        /\ Built.repo.Name = input.name.v
        /\ Built.repo.Online = input.online.v

\* the function has returned the repository of an offline apt-mirror with storage,
\* from resource data that holds format "maven2" and type "hosted"
C7_Witness ==
    /\ output # <<>>
    /\ Built.panic = ""
    /\ input.name.v = "apt-mirror" /\ ~input.online.v
    /\ GetOk(input, "format") /\ input.format.v = "maven2"
    /\ GetOk(input, "type") /\ input.type.v = RepositoryTypeHosted
    /\ ~IsNil(Built.repo.RepositoryStorage)

\* the value of a block of the configuration: nil when absent, else what its first
\* element says
FirstOf(list) == list[1].v

ExpectedApt(data) ==
    IF data.apt.v = <<>> THEN Nil
    ELSE Ptr([Distribution |-> FirstOf(data.apt.v).distribution.v,
              Flat |-> FirstOf(data.apt.v).flat.v])

ExpectedCleanup(data) ==
    IF data.cleanup.v = <<>> THEN Nil
    ELSE Ptr([PolicyNames |->
                 [i \in DOMAIN FirstOf(data.cleanup.v).policy_names.v |->
                     FirstOf(data.cleanup.v).policy_names.v[i].v]])

ExpectedAuthentication(list) ==
    IF list = <<>> \/ list[1] = NilElem THEN Nil
    ELSE Ptr([NTLMDomain |-> FirstOf(list).ntlm_domain.v, NTLMHost |-> FirstOf(list).ntlm_host.v,
              Type |-> FirstOf(list).type.v, Username |-> FirstOf(list).username.v,
              Password |-> FirstOf(list).password.v])

ExpectedConnection(list) ==
    IF list = <<>> \/ list[1] = NilElem THEN Nil
    ELSE Ptr([Retries |-> Ptr(FirstOf(list).retries.v),
              Timeout |-> Ptr(FirstOf(list).timeout.v)])

ExpectedHTTPClient(data) ==
    IF data.http_client.v = <<>> THEN Nil
    ELSE Ptr([AutoBlock |-> FirstOf(data.http_client.v).auto_block.v,
              Blocked |-> FirstOf(data.http_client.v).blocked.v,
              Authentication |->
                 ExpectedAuthentication(FirstOf(data.http_client.v).authentication.v),
              Connection |-> ExpectedConnection(FirstOf(data.http_client.v).connection.v)])

ExpectedNegativeCache(data) ==
    IF data.negative_cache.v = <<>> THEN Nil
    ELSE Ptr([Enabled |-> FirstOf(data.negative_cache.v).enabled.v,
              TTL |-> FirstOf(data.negative_cache.v).ttl.v])

ExpectedProxy(data) ==
    IF data.proxy.v = <<>> THEN Nil
    ELSE Ptr([ContentMaxAge |-> FirstOf(data.proxy.v).content_max_age.v,
              MetadataMaxAge |-> FirstOf(data.proxy.v).metadata_max_age.v,
              RemoteURL |-> FirstOf(data.proxy.v).remote_url.v])

ExpectedStorage(data) ==
    IF data.storage.v = <<>> THEN Nil
    ELSE Ptr([BlobStoreName |-> FirstOf(data.storage.v).blob_store_name.v,
              StrictContentTypeValidation |->
                 FirstOf(data.storage.v).strict_content_type_validation.v,
              WritePolicy |-> Nil])

BlocksMarshalled(data, repo) ==
    /\ repo.RepositoryApt = ExpectedApt(data)
    /\ repo.RepositoryCleanup = ExpectedCleanup(data)
    /\ repo.RepositoryHTTPClient = ExpectedHTTPClient(data)
    /\ repo.RepositoryNegativeCache = ExpectedNegativeCache(data)
    /\ repo.RepositoryProxy = ExpectedProxy(data)
    /\ repo.RepositoryStorage = ExpectedStorage(data)

\* C8: for each of the blocks apt, cleanup, http_client, negative_cache, proxy and
\* storage, the sub-structure of the repository the function builds is non-nil if
\* and only if the block is present, and then holds the values of its first element.
C8_BlocksMarshalled ==
    output # <<>> => Built.panic = "" /\ BlocksMarshalled(input, Built.repo)

\* what holds of C8: as C8, for the calls the function returns from
ReturnedBlocksMarshalled ==
    (output # <<>> /\ Built.panic = "") => BlocksMarshalled(input, Built.repo)

\* the function panics exactly on a connection block that is set
PanicsOnConnection ==
    output # <<>> => (Built.panic # "" <=> HasIntConnection(input))

\* C11: for every configuration the RepositoryStorage the function builds has no
\* WritePolicy, and the function never reads write_policy from the storage map: no
\* call ends in the panic of that read, whatever type the resource data holds.
C11_NoWritePolicy ==
    output # <<>> =>
        /\ Built.panic # "interface conversion: interface {} is nil, not string"
        /\ ~IsNil(Built.repo.RepositoryStorage) =>
              IsNil(Deref(Built.repo.RepositoryStorage).WritePolicy)
        /\ (GetOk(input, "storage") /\ Built.panic = "") =>
              ~IsNil(Built.repo.RepositoryStorage)

\* the function has returned a RepositoryStorage from resource data that holds a
\* storage block and the type "hosted"
C11_Witness ==
    /\ output # <<>>
    /\ Built.panic = ""
    /\ GetOk(input, "type") /\ input.type.v = RepositoryTypeHosted
    /\ GetOk(input, "storage")
    /\ ~IsNil(Built.repo.RepositoryStorage)
    /\ IsNil(Deref(Built.repo.RepositoryStorage).WritePolicy)

====
